---- MODULE Spec2Model ----
(***************************************************************************)
(* Model of the turn orchestration core of parrot-lm                       *)
(* (src/orchestrator.py): class Agent with its retried generate_response,  *)
(* class Orchestrator with the generator run_simulation and                *)
(* _create_log_entry.                                                      *)
(*                                                                         *)
(* One Orchestrator is constructed (Init) and run_simulation is invoked on *)
(* it by a caller that pulls the generator item by item.  The completion   *)
(* endpoint is the environment: every attempt either raises or returns one *)
(* of a small set of responses.                                            *)
(*                                                                         *)
(* Spec       one run_simulation call on a new Orchestrator                *)
(* SpecLife   repeated run_simulation calls on the same Orchestrator       *)
(* SpecCaller one run whose caller edits its prompt variables meanwhile    *)
(* SpecFair   one run whose caller keeps pulling and whose requests all    *)
(*            come back                                                    *)
(* SpecBatch  one simulation run by run_experiments, which saves the logs  *)
(*            after every entry                                            *)
(* SpecExperiments  run_experiments over all its combinations             *)
(* SpecTab    the conversation tab, one round per script run               *)
(* SpecTabSameModel  the same with one model chosen for both agents       *)
(*                                                                         *)
(* Not modelled: the wall-clock timestamp of a Log Entry (no claim reads   *)
(* it); latency is part of the environment's response.  Of the tab, the    *)
(* Start, Pause, Continue and Extend controls and the running logic are    *)
(* modelled; the Reset control (which returns the tab to its initial       *)
(* state), the average latency metric, the exports and the rendering are   *)
(* not.                                                                    *)
(***************************************************************************)
EXTENDS Integers, Sequences, FiniteSets, TLC

VARIABLES
    api_key,              \* os.getenv("OPENROUTER_API_KEY") as Agent.__init__ reads it
    scenario_name,        \* Orchestrator.scenario_name
    caller_prompt,        \* the caller's own prompt variables, per agent name
    cfgA, cfgB,           \* agent_a_config / agent_b_config given to Orchestrator.__init__
    experiment_id,        \* Orchestrator.experiment_id
    persona_a_snapshot,   \* Orchestrator.persona_a_snapshot
    persona_b_snapshot,   \* Orchestrator.persona_b_snapshot
    histA, histB,         \* Agent.history of agent_a / agent_b
    logs,                 \* Orchestrator.logs
    pc,                   \* position of the run_simulation generator
    num_turns,            \* argument of the current run_simulation call
    initial_message,      \* argument of the current run_simulation call
    turn_id,              \* loop variable of run_simulation
    last_message,         \* local of run_simulation
    response,             \* response_a / response_b held across the yield
    attempt,              \* tenacity's attempt number inside generate_response
    yielded,              \* the items the caller has received
    requests,             \* every outbound chat.completions.create call
    oplog,                \* the events written through logger
    log_file,             \* the lines of data/experiment_log.jsonl
    batch,                \* run_experiments: the entries it has passed on
    session_state         \* st.session_state of the conversation tab

vars == <<api_key, scenario_name, caller_prompt, cfgA, cfgB, experiment_id, persona_a_snapshot, persona_b_snapshot,
          histA, histB, logs, pc, num_turns, initial_message, turn_id,
          last_message, response, attempt, yielded, requests, oplog,
          log_file, batch, session_state>>

-----------------------------------------------------------------------------
(* Bounds *)

\* largest num_turns a caller passes to run_simulation
MaxTurns == 2
\* attempts the completion endpoint lets fail, over the Orchestrator's lifetime
MaxRaises == 3
\* run_simulation calls on one Orchestrator over its lifetime
MaxCalls == 2
\* clicks of the user on the controls of the conversation tab
MaxClicks == 3
\* largest num_turns run_experiments is called with
BatchTurns == 1

-----------------------------------------------------------------------------
(* Values *)

\* Python's None, for a content the provider left absent
None == "<None>"

\* stop_after_attempt(3)
MaxAttempts == 3

AgentAName == "Agent A"
AgentBName == "Agent B"

\* The agent configurations a caller may pass: model, system prompt, and the
\* optional user_persona_snapshot (None when the key is missing).
Configs ==
    { [model |-> "m1", system_prompt |-> "p1", user_persona_snapshot |-> None],
      [model |-> "m2", system_prompt |-> "p2", user_persona_snapshot |-> "persona2"] }

\* experiment_id argument: supplied, or None (then uuid4 is drawn)
ExperimentIdArgs == {None, "exp1"}
Uuid4 == "uuid-1"

\* the (experiment_id, scenario_name) arguments a caller may construct with
OrchestratorArgs ==
    { [experiment_id |-> None,   scenario_name |-> "Strangers"],
      [experiment_id |-> "exp1", scenario_name |-> "Committed"] }

\* what the environment may hold for OPENROUTER_API_KEY
ApiKeys == {None, "", "sk-key"}

\* texts the caller may later put into its prompt variables
EditedPrompt == "p-edited"

InitialMessages == {"Hello.", "Hi"}

\* What the completion endpoint may answer to one request.
Usage(p, c) == [present |-> TRUE, prompt_tokens |-> p, completion_tokens |-> c]
NoUsage == [present |-> FALSE, prompt_tokens |-> 0, completion_tokens |-> 0]

Responses ==
    { [content |-> "x",  finish_reason |-> "stop",           usage |-> Usage(5, 7), latency_ms |-> 10],
      [content |-> "y",  finish_reason |-> "length",         usage |-> NoUsage,     latency_ms |-> 20],
      [content |-> "x",  finish_reason |-> "content_filter", usage |-> Usage(5, 1), latency_ms |-> 10],
      [content |-> "",   finish_reason |-> "stop",           usage |-> Usage(5, 0), latency_ms |-> 10],
      [content |-> None, finish_reason |-> "length",         usage |-> NoUsage,     latency_ms |-> 20],
      [content |-> None, finish_reason |-> "content_filter", usage |-> NoUsage,     latency_ms |-> 10] }

\* an attempt that raised has no response
NoAnswer == [content |-> None, finish_reason |-> None, usage |-> NoUsage, latency_ms |-> 0]

NoResponse == [content |-> None, latency_ms |-> 0, input_tokens |-> 0,
               output_tokens |-> 0, finish_reason |-> None, is_refusal |-> FALSE]

-----------------------------------------------------------------------------
(* Agent *)

\* Python truthiness of a str-or-None
Truthy(s) == s # None /\ s # ""

Message(role, content) == [role |-> role, content |-> content]

\* Variant: only an unset variable counts as a missing credential
CredentialMissingUnsetOnly(key) == key = None

\* Agent.__init__, lines 33-35
CredentialMissing(key) == ~Truthy(key)

\* Agent.__init__: the history starts with the system message
InitialHistory(cfg) == << Message("system", cfg.system_prompt) >>

\* Variant: the history is windowed, the oldest exchange is dropped
HistoryOnEntryWindowed(hist, input_text) ==
    IF Len(hist) >= 3
    THEN Append(<<hist[1]>> \o SubSeq(hist, 3, Len(hist)), Message("user", input_text))
    ELSE Append(hist, Message("user", input_text))

\* generate_response, line 53: the user message is appended on entry
HistoryOnEntry(hist, input_text) == Append(hist, Message("user", input_text))

\* Variant: only an empty content counts as a refusal
IsRefusalContentOnly(content, finish_reason) == ~Truthy(content)

\* generate_response, line 71
IsRefusal(content, finish_reason) ==
    (~Truthy(content)) \/ finish_reason = "content_filter"

\* generate_response, lines 74-75
HistoryOnReturn(hist, content) ==
    IF Truthy(content) THEN Append(hist, Message("assistant", content)) ELSE hist

\* Variant: a missing usage is replaced by an estimate of one token each way
TurnResultEstimated(resp) ==
    [content       |-> resp.content,
     latency_ms    |-> resp.latency_ms,
     input_tokens  |-> IF resp.usage.present THEN resp.usage.prompt_tokens ELSE 1,
     output_tokens |-> IF resp.usage.present THEN resp.usage.completion_tokens ELSE 1,
     finish_reason |-> resp.finish_reason,
     is_refusal    |-> IsRefusal(resp.content, resp.finish_reason)]

\* generate_response, lines 77-84: the Turn Result
TurnResult(resp) ==
    [content       |-> resp.content,
     latency_ms    |-> resp.latency_ms,
     input_tokens  |-> IF resp.usage.present THEN resp.usage.prompt_tokens ELSE 0,
     output_tokens |-> IF resp.usage.present THEN resp.usage.completion_tokens ELSE 0,
     finish_reason |-> resp.finish_reason,
     is_refusal    |-> IsRefusal(resp.content, resp.finish_reason)]

\* Variant: the budget is checked one attempt too late
RetryAfterRaiseFour(k) == k <= MaxAttempts

\* tenacity: another attempt is made after a raise while the budget lasts
RetryAfterRaise(k) == k < MaxAttempts

\* wait_exponential(multiplier=1, min=4, max=10), line 44; the base of the
\* exponential is tenacity's default
WaitMultiplier == 1
WaitMin == 4
WaitMax == 10
ExpBase == 2

\* Variant: the exponential delay is slept as it is, neither floor nor ceiling
WaitExponentialUnclamped(k) == WaitMultiplier * ExpBase ^ (k - 1)

\* tenacity: the delay slept after the k-th attempt of a call has raised,
\* multiplier * 2^(k-1) clamped to [min, max]
WaitExponential(k) ==
    LET result == WaitMultiplier * ExpBase ^ (k - 1)
        capped == IF result < WaitMax THEN result ELSE WaitMax
    IN IF capped > WaitMin THEN capped ELSE WaitMin

-----------------------------------------------------------------------------
(* Orchestrator *)

\* __init__, lines 116-117: dict.get with the system prompt as default
PersonaSnapshot(cfg) ==
    IF cfg.user_persona_snapshot # None THEN cfg.user_persona_snapshot
    ELSE cfg.system_prompt

\* __init__, line 100
ExperimentId(arg) == IF Truthy(arg) THEN arg ELSE Uuid4

\* Variant: the persona text is read from the caller's variable at log time
CreateLogEntryRereadsPrompt(tid, speakerName, speakerCfg, responderCfg, result) ==
    [experiment_id   |-> experiment_id,
     turn_id         |-> tid,
     scenario        |-> scenario_name,
     speaker_model   |-> speakerCfg.model,
     responder_model |-> responderCfg.model,
     latency_ms      |-> result.latency_ms,
     input_tokens    |-> result.input_tokens,
     output_tokens   |-> result.output_tokens,
     content         |-> result.content,
     finish_reason   |-> result.finish_reason,
     is_refusal      |-> result.is_refusal,
     system_prompt_snapshot |->
         IF speakerCfg.user_persona_snapshot # None THEN speakerCfg.user_persona_snapshot
         ELSE caller_prompt[speakerName]]

\* Variant: an identifier is drawn for every entry
CreateLogEntryFreshId(tid, speakerName, speakerCfg, responderCfg, result) ==
    [experiment_id   |-> IF logs = << >> THEN experiment_id ELSE "uuid-2",
     turn_id         |-> tid,
     scenario        |-> scenario_name,
     speaker_model   |-> speakerCfg.model,
     responder_model |-> responderCfg.model,
     latency_ms      |-> result.latency_ms,
     input_tokens    |-> result.input_tokens,
     output_tokens   |-> result.output_tokens,
     content         |-> result.content,
     finish_reason   |-> result.finish_reason,
     is_refusal      |-> result.is_refusal,
     system_prompt_snapshot |->
         IF speakerName = AgentAName THEN persona_a_snapshot ELSE persona_b_snapshot]

\* Variant: speaker and responder model ids exchanged
CreateLogEntrySwapped(tid, speakerName, speakerCfg, responderCfg, result) ==
    [experiment_id   |-> experiment_id,
     turn_id         |-> tid,
     scenario        |-> scenario_name,
     speaker_model   |-> responderCfg.model,
     responder_model |-> speakerCfg.model,
     latency_ms      |-> result.latency_ms,
     input_tokens    |-> result.input_tokens,
     output_tokens   |-> result.output_tokens,
     content         |-> result.content,
     finish_reason   |-> result.finish_reason,
     is_refusal      |-> result.is_refusal,
     system_prompt_snapshot |->
         IF speakerName = AgentAName THEN persona_a_snapshot ELSE persona_b_snapshot]

\* Variant: the turn index counts messages instead of rounds
CreateLogEntryPerMessage(tid, speakerName, speakerCfg, responderCfg, result) ==
    [experiment_id   |-> experiment_id,
     turn_id         |-> Len(logs),
     scenario        |-> scenario_name,
     speaker_model   |-> speakerCfg.model,
     responder_model |-> responderCfg.model,
     latency_ms      |-> result.latency_ms,
     input_tokens    |-> result.input_tokens,
     output_tokens   |-> result.output_tokens,
     content         |-> result.content,
     finish_reason   |-> result.finish_reason,
     is_refusal      |-> result.is_refusal,
     system_prompt_snapshot |->
         IF speakerName = AgentAName THEN persona_a_snapshot ELSE persona_b_snapshot]

\* _create_log_entry
CreateLogEntry(tid, speakerName, speakerCfg, responderCfg, result) ==
    [experiment_id   |-> experiment_id,
     turn_id         |-> tid,
     scenario        |-> scenario_name,
     speaker_model   |-> speakerCfg.model,
     responder_model |-> responderCfg.model,
     latency_ms      |-> result.latency_ms,
     input_tokens    |-> result.input_tokens,
     output_tokens   |-> result.output_tokens,
     content         |-> result.content,
     finish_reason   |-> result.finish_reason,
     is_refusal      |-> result.is_refusal,
     system_prompt_snapshot |->
         IF speakerName = AgentAName THEN persona_a_snapshot ELSE persona_b_snapshot]

Event(level, what, who, tid) == [level |-> level, event |-> what, agent |-> who, turn_id |-> tid]

\* run_experiments before its first simulation has yielded
NoBatch == [out |-> << >>]

\* init_conversation_state, conversation.py lines 13-34; no Orchestrator is
\* stored, the script is not inside its for loop, the user has not clicked
NoSession ==
    [conversation_status          |-> "idle",
     conversation_history         |-> << >>,
     conversation_metrics         |-> [total_tokens |-> 0, total_messages |-> 0,
                                       agent_a_messages |-> 0, agent_b_messages |-> 0],
     conversation_turns_completed |-> 0,
     conversation_max_turns       |-> 0,
     conversation_start_message   |-> None,
     orchestrator                 |-> FALSE,
     in_loop                      |-> FALSE,
     messages_generated           |-> 0,
     clicks                       |-> << >>]

\* The state after Orchestrator(agent_a_config, agent_b_config, scenario_name,
\* experiment_id) has returned or raised.  Agent A is built first: without a
\* credential its __init__ raises ValueError, which leaves __init__ of the
\* Orchestrator at once; no Orchestrator exists then (pc = "config_error").
InitOrchestrator ==
    /\ api_key \in ApiKeys
    /\ cfgA \in Configs
    /\ cfgB \in Configs
    /\ \E args \in OrchestratorArgs :
          /\ args.experiment_id \in ExperimentIdArgs
          /\ experiment_id = ExperimentId(args.experiment_id)
          /\ scenario_name = args.scenario_name
    /\ caller_prompt = [w \in {AgentAName, AgentBName} |->
                          IF w = AgentAName THEN cfgA.system_prompt ELSE cfgB.system_prompt]
    /\ persona_a_snapshot = PersonaSnapshot(cfgA)
    /\ persona_b_snapshot = PersonaSnapshot(cfgB)
    /\ histA = InitialHistory(cfgA)
    /\ histB = InitialHistory(cfgB)
    /\ logs = << >>
    /\ pc = (IF CredentialMissing(api_key) THEN "config_error" ELSE "idle")
    /\ num_turns = 0
    /\ initial_message = "Hello."
    /\ turn_id = 0
    /\ last_message = "Hello."
    /\ response = NoResponse
    /\ attempt = 0
    /\ yielded = << >>
    /\ requests = << >>
    /\ oplog = << >>

\* The Orchestrator of a caller that keeps no log file and no session: the
\* file is empty, run_experiments and the conversation tab are not in use.
Init ==
    /\ InitOrchestrator
    /\ log_file = << >>
    /\ batch = NoBatch
    /\ session_state = NoSession

\* The caller calls run_simulation(n, msg): a generator is created, its body
\* has not started.
CallRunSimulation(n, msg) ==
    /\ pc = "idle"
    /\ pc' = "created"
    /\ num_turns' = n
    /\ initial_message' = msg
    /\ UNCHANGED <<log_file, batch, session_state, api_key, scenario_name, caller_prompt, cfgA, cfgB, experiment_id,
                   persona_a_snapshot, persona_b_snapshot,
                   histA, histB, logs, turn_id, last_message, response, attempt,
                   yielded, requests, oplog>>

\* Leaving the for loop (break or exhaustion): line 175, the generator returns
Finish(log) ==
    /\ pc' = "done"
    /\ oplog' = Append(log, Event("info", "completed", None, 0))

\* Variant: the loop runs one round too many
EnterRoundOffByOne(tid, log) ==
    IF tid <= num_turns
    THEN /\ turn_id' = tid
         /\ pc' = "callA"
         /\ attempt' = 1
         /\ oplog' = Append(log, Event("info", "generating", AgentAName, tid))
    ELSE /\ Finish(log)
         /\ UNCHANGED <<turn_id, attempt>>

\* Top of the loop body for round tid, or loop exhaustion
EnterRound(tid, log) ==
    IF tid < num_turns
    THEN /\ turn_id' = tid
         /\ pc' = "callA"
         /\ attempt' = 1
         /\ oplog' = Append(log, Event("info", "generating", AgentAName, tid))
    ELSE /\ Finish(log)
         /\ UNCHANGED <<turn_id, attempt>>

\* First next(): lines 130-135
PullFirst ==
    /\ pc = "created"
    /\ last_message' = initial_message
    /\ EnterRound(0, Append(oplog, Event("info", "starting", None, 0)))
    /\ UNCHANGED <<log_file, batch, session_state, api_key, scenario_name, caller_prompt, cfgA, cfgB, experiment_id,
                   persona_a_snapshot, persona_b_snapshot,
                   histA, histB, logs, num_turns, initial_message, response,
                   yielded, requests>>

\* Variant: last_message is not updated to A's output
PullAfterAStale ==
    /\ pc = "yieldA"
    /\ IF response.is_refusal
       THEN /\ Finish(Append(oplog, Event("warning", "refused", AgentAName, turn_id)))
            /\ UNCHANGED attempt
       ELSE /\ pc' = "callB"
            /\ attempt' = 1
            /\ oplog' = Append(oplog, Event("info", "generating", AgentBName, turn_id))
    /\ UNCHANGED <<log_file, batch, session_state, api_key, scenario_name, caller_prompt, cfgA, cfgB, experiment_id,
                   persona_a_snapshot, persona_b_snapshot,
                   histA, histB, logs, num_turns, initial_message, turn_id, last_message,
                   response, yielded, requests>>

\* Variant: A's refusal does not leave the loop
PullAfterAIgnoreRefusal ==
    /\ pc = "yieldA"
    /\ last_message' = response.content
    /\ pc' = "callB"
    /\ attempt' = 1
    /\ oplog' = Append(oplog, Event("info", "generating", AgentBName, turn_id))
    /\ UNCHANGED <<log_file, batch, session_state, api_key, scenario_name, caller_prompt, cfgA, cfgB, experiment_id,
                   persona_a_snapshot, persona_b_snapshot,
                   histA, histB, logs, num_turns, initial_message, turn_id, response,
                   yielded, requests>>

\* next() while suspended at line 147: lines 149-160
PullAfterA ==
    /\ pc = "yieldA"
    /\ last_message' = response.content
    /\ IF response.is_refusal
       THEN /\ Finish(Append(oplog, Event("warning", "refused", AgentAName, turn_id)))
            /\ UNCHANGED attempt
       ELSE /\ pc' = "callB"
            /\ attempt' = 1
            /\ oplog' = Append(oplog, Event("info", "generating", AgentBName, turn_id))
    /\ UNCHANGED <<log_file, batch, session_state, api_key, scenario_name, caller_prompt, cfgA, cfgB, experiment_id,
                   persona_a_snapshot, persona_b_snapshot,
                   histA, histB, logs, num_turns, initial_message, turn_id, response,
                   yielded, requests>>

\* Variant: B's refusal does not leave the loop
PullAfterBIgnoreRefusal ==
    /\ pc = "yieldB"
    /\ last_message' = response.content
    /\ EnterRound(turn_id + 1, oplog)
    /\ UNCHANGED <<log_file, batch, session_state, api_key, scenario_name, caller_prompt, cfgA, cfgB, experiment_id,
                   persona_a_snapshot, persona_b_snapshot,
                   histA, histB, logs, num_turns, initial_message, response,
                   yielded, requests>>

\* next() while suspended at line 164: lines 166-170, then the next round
PullAfterB ==
    /\ pc = "yieldB"
    /\ last_message' = response.content
    /\ IF response.is_refusal
       THEN /\ Finish(Append(oplog, Event("warning", "refused", AgentBName, turn_id)))
            /\ UNCHANGED <<turn_id, attempt>>
       ELSE EnterRound(turn_id + 1, oplog)
    /\ UNCHANGED <<log_file, batch, session_state, api_key, scenario_name, caller_prompt, cfgA, cfgB, experiment_id,
                   persona_a_snapshot, persona_b_snapshot,
                   histA, histB, logs, num_turns, initial_message, response,
                   yielded, requests>>

\* The record of one outbound chat.completions.create call (lines 57-61):
\* what was sent, the delay tenacity slept before sending it, and what came
\* back
Request(who, hist, input_text, outcome, resp) ==
    [agent |-> who, attempt |-> attempt, turn_id |-> turn_id,
     input_text |-> input_text, messages |-> hist, outcome |-> outcome,
     waited |-> IF attempt = 1 THEN 0 ELSE WaitExponential(attempt - 1),
     answer |-> resp]

\* failures of the transport so far
Raised == Cardinality({ i \in DOMAIN requests : requests[i].outcome = "raised" })

\* Variant: the handler of run_simulation leaves the loop without logging the
\* failed turn
AttemptRaisesSilent(who) ==
    /\ pc = (IF who = AgentAName THEN "callA" ELSE "callB")
    /\ Raised < MaxRaises
    /\ LET hist == HistoryOnEntry(IF who = AgentAName THEN histA ELSE histB, last_message)
           log1 == Append(oplog, Event("error", "error generating", who, turn_id))
       IN /\ IF who = AgentAName
             THEN histA' = hist /\ UNCHANGED histB
             ELSE histB' = hist /\ UNCHANGED histA
          /\ requests' = Append(requests, Request(who, hist, last_message, "raised", NoAnswer))
          /\ IF RetryAfterRaise(attempt)
             THEN /\ attempt' = attempt + 1
                  /\ oplog' = log1
                  /\ UNCHANGED pc
             ELSE /\ Finish(log1)
                  /\ UNCHANGED attempt
    /\ UNCHANGED <<log_file, batch, session_state, api_key, scenario_name, caller_prompt, cfgA, cfgB, experiment_id,
                   persona_a_snapshot, persona_b_snapshot,
                   logs, num_turns, initial_message, turn_id, last_message, response,
                   yielded>>

\* Variant: the handler of run_simulation logs the failed turn and goes on
\* with the next turn instead of leaving the loop
AttemptRaisesSwallowed(who) ==
    /\ pc = (IF who = AgentAName THEN "callA" ELSE "callB")
    /\ Raised < MaxRaises
    /\ LET hist == HistoryOnEntry(IF who = AgentAName THEN histA ELSE histB, last_message)
           log1 == Append(oplog, Event("error", "error generating", who, turn_id))
           log2 == Append(log1, Event("error", "failed turn", who, turn_id))
       IN /\ IF who = AgentAName
             THEN histA' = hist /\ UNCHANGED histB
             ELSE histB' = hist /\ UNCHANGED histA
          /\ requests' = Append(requests, Request(who, hist, last_message, "raised", NoAnswer))
          /\ IF RetryAfterRaise(attempt)
             THEN /\ attempt' = attempt + 1
                  /\ oplog' = log1
                  /\ UNCHANGED <<pc, turn_id>>
             ELSE IF who = AgentAName
                  THEN /\ pc' = "callB"
                       /\ attempt' = 1
                       /\ oplog' = log2
                       /\ UNCHANGED turn_id
                  ELSE EnterRound(turn_id + 1, log2)
    /\ UNCHANGED <<log_file, batch, session_state, api_key, scenario_name, caller_prompt, cfgA, cfgB, experiment_id,
                   persona_a_snapshot, persona_b_snapshot,
                   logs, num_turns, initial_message, last_message, response,
                   yielded>>

\* One attempt of generate_response that raises (lines 53-61, 86-88); after
\* the last attempt the error reaches run_simulation (lines 154-156 / 171-173).
AttemptRaises(who) ==
    /\ pc = (IF who = AgentAName THEN "callA" ELSE "callB")
    /\ Raised < MaxRaises
    /\ LET hist == HistoryOnEntry(IF who = AgentAName THEN histA ELSE histB, last_message)
           log1 == Append(oplog, Event("error", "error generating", who, turn_id))
       IN /\ IF who = AgentAName
             THEN histA' = hist /\ UNCHANGED histB
             ELSE histB' = hist /\ UNCHANGED histA
          /\ requests' = Append(requests, Request(who, hist, last_message, "raised", NoAnswer))
          /\ IF RetryAfterRaise(attempt)
             THEN /\ attempt' = attempt + 1
                  /\ oplog' = log1
                  /\ UNCHANGED pc
             ELSE /\ Finish(Append(log1, Event("error", "failed turn", who, turn_id)))
                  /\ UNCHANGED attempt
    /\ UNCHANGED <<log_file, batch, session_state, api_key, scenario_name, caller_prompt, cfgA, cfgB, experiment_id,
                   persona_a_snapshot, persona_b_snapshot,
                   logs, num_turns, initial_message, turn_id, last_message, response,
                   yielded>>

\* Variant: A's entry is buffered in logs and B is called at once; the caller
\* gets both entries of the round after B's reply
AttemptReturnsBuffered(who, resp) ==
    /\ pc = (IF who = AgentAName THEN "callA" ELSE "callB")
    /\ LET hist   == HistoryOnEntry(IF who = AgentAName THEN histA ELSE histB, last_message)
           result == TurnResult(resp)
           entry  == IF who = AgentAName
                     THEN CreateLogEntry(turn_id, AgentAName, cfgA, cfgB, result)
                     ELSE CreateLogEntry(turn_id, AgentBName, cfgB, cfgA, result)
       IN /\ IF who = AgentAName
             THEN histA' = HistoryOnReturn(hist, resp.content) /\ UNCHANGED histB
             ELSE histB' = HistoryOnReturn(hist, resp.content) /\ UNCHANGED histA
          /\ requests' = Append(requests, Request(who, hist, last_message, "returned", resp))
          /\ response' = result
          /\ logs' = Append(logs, entry)
          /\ IF who = AgentAName /\ ~result.is_refusal
             THEN /\ pc' = "callB"
                  /\ attempt' = 1
                  /\ last_message' = result.content
                  /\ UNCHANGED yielded
             ELSE /\ pc' = (IF who = AgentAName THEN "yieldA" ELSE "yieldB")
                  /\ yielded' = Append(logs, entry)
                  /\ UNCHANGED <<attempt, last_message>>
    /\ UNCHANGED <<log_file, batch, session_state, api_key, scenario_name, caller_prompt, cfgA, cfgB, experiment_id,
                   persona_a_snapshot, persona_b_snapshot,
                   num_turns, initial_message, turn_id, oplog>>

\* Variant: the reply is mirrored into the other agent's history when the
\* entry is built
AttemptReturnsMirrored(who, resp) ==
    /\ pc = (IF who = AgentAName THEN "callA" ELSE "callB")
    /\ LET hist   == HistoryOnEntry(IF who = AgentAName THEN histA ELSE histB, last_message)
           result == TurnResult(resp)
           entry  == IF who = AgentAName
                     THEN CreateLogEntry(turn_id, AgentAName, cfgA, cfgB, result)
                     ELSE CreateLogEntry(turn_id, AgentBName, cfgB, cfgA, result)
       IN /\ IF who = AgentAName
             THEN /\ histA' = HistoryOnReturn(hist, resp.content)
                  /\ histB' = HistoryOnEntry(histB, resp.content)
             ELSE /\ histB' = HistoryOnReturn(hist, resp.content)
                  /\ histA' = HistoryOnEntry(histA, resp.content)
          /\ requests' = Append(requests, Request(who, hist, last_message, "returned", resp))
          /\ response' = result
          /\ logs' = Append(logs, entry)
          /\ yielded' = Append(yielded, entry)
    /\ pc' = (IF who = AgentAName THEN "yieldA" ELSE "yieldB")
    /\ UNCHANGED <<log_file, batch, session_state, api_key, scenario_name, caller_prompt, cfgA, cfgB, experiment_id,
                   persona_a_snapshot, persona_b_snapshot,
                   num_turns, initial_message, turn_id, last_message, attempt,
                   oplog>>

\* Variant: a refusing entry is yielded but not kept in logs
AttemptReturnsDropsRefusal(who, resp) ==
    /\ pc = (IF who = AgentAName THEN "callA" ELSE "callB")
    /\ LET hist   == HistoryOnEntry(IF who = AgentAName THEN histA ELSE histB, last_message)
           result == TurnResult(resp)
           entry  == IF who = AgentAName
                     THEN CreateLogEntry(turn_id, AgentAName, cfgA, cfgB, result)
                     ELSE CreateLogEntry(turn_id, AgentBName, cfgB, cfgA, result)
       IN /\ IF who = AgentAName
             THEN histA' = HistoryOnReturn(hist, resp.content) /\ UNCHANGED histB
             ELSE histB' = HistoryOnReturn(hist, resp.content) /\ UNCHANGED histA
          /\ requests' = Append(requests, Request(who, hist, last_message, "returned", resp))
          /\ response' = result
          /\ logs' = (IF result.is_refusal THEN logs ELSE Append(logs, entry))
          /\ yielded' = Append(yielded, entry)
    /\ pc' = (IF who = AgentAName THEN "yieldA" ELSE "yieldB")
    /\ UNCHANGED <<log_file, batch, session_state, api_key, scenario_name, caller_prompt, cfgA, cfgB, experiment_id,
                   persona_a_snapshot, persona_b_snapshot,
                   num_turns, initial_message, turn_id, last_message, attempt,
                   oplog>>

\* One attempt of generate_response that returns (lines 53-84), then lines
\* 145-147 / 162-164: the entry is built, appended to logs and yielded.
AttemptReturns(who, resp) ==
    /\ pc = (IF who = AgentAName THEN "callA" ELSE "callB")
    /\ LET hist   == HistoryOnEntry(IF who = AgentAName THEN histA ELSE histB, last_message)
           result == TurnResult(resp)
           entry  == IF who = AgentAName
                     THEN CreateLogEntry(turn_id, AgentAName, cfgA, cfgB, result)
                     ELSE CreateLogEntry(turn_id, AgentBName, cfgB, cfgA, result)
       IN /\ IF who = AgentAName
             THEN histA' = HistoryOnReturn(hist, resp.content) /\ UNCHANGED histB
             ELSE histB' = HistoryOnReturn(hist, resp.content) /\ UNCHANGED histA
          /\ requests' = Append(requests, Request(who, hist, last_message, "returned", resp))
          /\ response' = result
          /\ logs' = Append(logs, entry)
          /\ yielded' = Append(yielded, entry)
    /\ pc' = (IF who = AgentAName THEN "yieldA" ELSE "yieldB")
    /\ UNCHANGED <<log_file, batch, session_state, api_key, scenario_name, caller_prompt, cfgA, cfgB, experiment_id,
                   persona_a_snapshot, persona_b_snapshot,
                   num_turns, initial_message, turn_id, last_message, attempt,
                   oplog>>

Next ==
    \/ \E n \in 0..MaxTurns, msg \in InitialMessages : CallRunSimulation(n, msg)
    \/ PullFirst
    \/ PullAfterA
    \/ PullAfterB
    \/ \E who \in {AgentAName, AgentBName} : AttemptRaises(who)
    \/ \E who \in {AgentAName, AgentBName}, resp \in Responses : AttemptReturns(who, resp)

Spec == Init /\ [][Next]_vars

-----------------------------------------------------------------------------
(* The lifetime of one Orchestrator: a caller that calls run_simulation
   again on it, as the conversation tab does round after round; and a caller
   that edits its own prompt variables after construction. *)

\* run_simulation bodies started so far (line 130 is logged once per run)
RunsStarted == Cardinality({ k \in DOMAIN oplog : oplog[k].event = "starting" })

\* rounds entered so far, over all runs (line 138)
RoundsEntered ==
    Cardinality({ k \in DOMAIN oplog :
                    oplog[k].event = "generating" /\ oplog[k].agent = AgentAName })

\* tabs/conversation.py, lines 391-393: the caller continues from the content
\* of the last entry
ContinuationMessage ==
    IF logs = << >> THEN initial_message ELSE logs[Len(logs)].content

\* Variant: run_simulation starts every run with an empty logs list
CallRunSimulationAgainClearsLogs(n) ==
    /\ pc \in {"yieldA", "yieldB", "done"}
    /\ RunsStarted < MaxCalls
    /\ RoundsEntered + n <= MaxTurns
    /\ pc' = "created"
    /\ num_turns' = n
    /\ initial_message' = ContinuationMessage
    /\ logs' = << >>
    /\ UNCHANGED <<log_file, batch, session_state, api_key, scenario_name, caller_prompt, cfgA, cfgB, experiment_id,
                   persona_a_snapshot, persona_b_snapshot,
                   histA, histB, turn_id, last_message, response, attempt,
                   yielded, requests, oplog>>

\* The caller leaves the generator it holds (exhausted, or suspended on an
\* entry and never resumed) and calls run_simulation(n, msg) again on the
\* same Orchestrator: a new generator, its body not started.
CallRunSimulationAgain(n) ==
    /\ pc \in {"yieldA", "yieldB", "done"}
    /\ RunsStarted < MaxCalls
    /\ RoundsEntered + n <= MaxTurns
    /\ pc' = "created"
    /\ num_turns' = n
    /\ initial_message' = ContinuationMessage
    /\ UNCHANGED <<log_file, batch, session_state, api_key, scenario_name, caller_prompt, cfgA, cfgB, experiment_id,
                   persona_a_snapshot, persona_b_snapshot,
                   histA, histB, logs, turn_id, last_message, response, attempt,
                   yielded, requests, oplog>>

\* The caller assigns a new text to the variable it passed as system prompt.
\* It can do so only while it has control: the generator is suspended, not
\* started or exhausted.
CallerChangesPrompt(who) ==
    /\ pc \in {"idle", "yieldA", "yieldB", "done"}
    /\ caller_prompt[who] # EditedPrompt
    /\ caller_prompt' = [caller_prompt EXCEPT ![who] = EditedPrompt]
    /\ UNCHANGED <<log_file, batch, session_state, api_key, scenario_name, cfgA, cfgB, experiment_id,
                   persona_a_snapshot, persona_b_snapshot,
                   histA, histB, logs, pc, num_turns, initial_message, turn_id,
                   last_message, response, attempt, yielded, requests, oplog>>

NextLife ==
    \/ Next
    \/ \E n \in 0..MaxTurns : CallRunSimulationAgain(n)

\* Constructions that succeed, A without persona override, B with one
InitLife ==
    /\ Init
    /\ api_key = "sk-key"
    /\ cfgA.user_persona_snapshot = None
    /\ cfgB.user_persona_snapshot # None

SpecLife == InitLife /\ [][NextLife]_vars

\* One run whose caller edits its prompt variables while it has control
NextCaller ==
    \/ Next
    \/ \E who \in {AgentAName, AgentBName} : CallerChangesPrompt(who)

\* Constructions with a generated experiment id
InitCaller == Init /\ experiment_id = Uuid4

SpecCaller == InitCaller /\ [][NextCaller]_vars

\* One run whose caller keeps pulling and whose completion endpoint answers
\* every request, with a response or an error: next() is called again
\* whenever the generator is suspended, and no attempt hangs.
Fairness ==
    /\ WF_vars(PullFirst)
    /\ WF_vars(PullAfterA)
    /\ WF_vars(PullAfterB)
    /\ WF_vars(\/ \E who \in {AgentAName, AgentBName} : AttemptRaises(who)
               \/ \E who \in {AgentAName, AgentBName}, resp \in Responses :
                      AttemptReturns(who, resp))

SpecFair == Spec /\ Fairness

-----------------------------------------------------------------------------
(* The log file, and run_experiments (src/run_experiment.py) as the caller
   of one simulation *)

\* save_logs, line 206: json.dumps(entry) + '\n', the text of one line
JsonLine(entry) == [json |-> entry]

\* save_logs, lines 204-206: the file is opened in append mode and one line
\* is written for every entry of self.logs
SaveLogs(file, lg) == file \o [i \in 1..Len(lg) |-> JsonLine(lg[i])]

\* a line that an earlier experiment left in the file
OldLine == JsonLine([experiment_id |-> "earlier", turn_id |-> 0, content |-> "x"])

\* run_experiments has passed on every entry the simulation has yielded
PassedOn == Len(batch.out) = Len(yielded)

\* run_experiments, lines 62-65: the body of its for loop for the entry the
\* simulation has just yielded: save_logs (which logs that it saved), then
\* the entry is yielded on to the caller of run_experiments
HandleEntry ==
    /\ pc \in {"yieldA", "yieldB"}
    /\ ~PassedOn
    /\ log_file' = SaveLogs(log_file, logs)
    /\ oplog' = Append(oplog, Event("info", "logs saved", None, 0))
    /\ batch' = [batch EXCEPT !.out = Append(@, yielded[Len(yielded)])]
    /\ UNCHANGED <<session_state, api_key, scenario_name, caller_prompt, cfgA, cfgB,
                   experiment_id, persona_a_snapshot, persona_b_snapshot,
                   histA, histB, logs, pc, num_turns, initial_message, turn_id,
                   last_message, response, attempt, yielded, requests>>

\* One simulation of the batch: run_simulation(num_turns) with the default
\* initial message; the for statement asks for the next entry once the body
\* is through with the one before.
NextBatch ==
    \/ \E n \in 0..MaxTurns : CallRunSimulation(n, "Hello.")
    \/ PullFirst
    \/ PassedOn /\ PullAfterA
    \/ PassedOn /\ PullAfterB
    \/ \E who \in {AgentAName, AgentBName} : AttemptRaises(who)
    \/ \E who \in {AgentAName, AgentBName}, resp \in Responses : AttemptReturns(who, resp)
    \/ HandleEntry

\* run_experiments, lines 43-59: both configurations carry the scenario's
\* prompt and no persona override, no experiment id is passed; the file may
\* hold lines of earlier experiments.
InitBatch ==
    /\ InitOrchestrator
    /\ api_key = "sk-key"
    /\ cfgA.user_persona_snapshot = None
    /\ cfgB = cfgA
    /\ experiment_id = Uuid4
    /\ log_file \in {<< >>, << OldLine >>}
    /\ batch = NoBatch
    /\ session_state = NoSession

SpecBatch == InitBatch /\ [][NextBatch]_vars

-----------------------------------------------------------------------------
(* The conversation tab (src/tabs/conversation.py): a Streamlit script that
   is run again from the top after every st.rerun().  While the status is
   "running" each script run asks the stored Orchestrator for one round,
   run_simulation(1, ...), and consumes its entries in a for loop. *)

\* the agent configurations the tab builds (lines 353-368): model and system
\* prompt from the page configuration, no persona override
TabConfigs ==
    { [model |-> "m1", system_prompt |-> "p1", user_persona_snapshot |-> None],
      [model |-> "m2", system_prompt |-> "p2", user_persona_snapshot |-> None] }

\* line 373: the scenario name the tab passes
TabScenario == "Conversation"

\* uuid4 as Orchestrator.__init__ draws it (line 100): a value no earlier
\* entry carries
Uuids == << "uuid-1", "uuid-2", "uuid-3", "uuid-4", "uuid-5", "uuid-6", "uuid-7", "uuid-8" >>
FreshUuid == Uuids[1 + Cardinality({ yielded[i].experiment_id : i \in DOMAIN yielded })]

\* the answers of the completion endpoint told apart in the tab: a reply,
\* and a refusal without content
TabResponses ==
    { r \in Responses : r.finish_reason = (IF r.content = None THEN "content_filter" ELSE "stop")
                        /\ r.content # "" }

\* The tab is opened: session state as init_conversation_state leaves it, no
\* Orchestrator yet.  The agent variables hold what the first construction
\* will put there.
InitTab ==
    /\ api_key = "sk-key"
    /\ cfgA \in TabConfigs
    /\ cfgB \in TabConfigs
    /\ cfgA.model = "m1"
    /\ cfgB.model = "m2"
    /\ experiment_id = Uuid4
    /\ scenario_name = TabScenario
    /\ caller_prompt = [w \in {AgentAName, AgentBName} |->
                          IF w = AgentAName THEN cfgA.system_prompt ELSE cfgB.system_prompt]
    /\ persona_a_snapshot = PersonaSnapshot(cfgA)
    /\ persona_b_snapshot = PersonaSnapshot(cfgB)
    /\ histA = InitialHistory(cfgA)
    /\ histB = InitialHistory(cfgB)
    /\ logs = << >>
    /\ pc = "idle"
    /\ num_turns = 0
    /\ initial_message = "Hello."
    /\ turn_id = 0
    /\ last_message = "Hello."
    /\ response = NoResponse
    /\ attempt = 0
    /\ yielded = << >>
    /\ requests = << >>
    /\ oplog = << >>
    /\ log_file = << >>
    /\ batch = NoBatch
    /\ session_state = NoSession

\* The script has run to its end and no rerun is outstanding: after a status
\* change to idle, paused or finished the st.rerun() that follows it runs
\* lines 465-470 before the user can act on the page.
ScriptIdle ==
    /\ ~session_state.in_loop
    /\ ~(session_state.conversation_status \in {"idle", "paused", "finished"}
           /\ session_state.orchestrator)

\* the user may click once more
MayClick == Len(session_state.clicks) < MaxClicks

\* lines 88, 108, 119-122, 173-176: the controls as the page renders them
StartEnabled    == session_state.conversation_status # "running"
PauseEnabled    == session_state.conversation_status = "running"
ContinueEnabled == session_state.conversation_status \in {"paused", "finished"}
ExtendEnabled   == session_state.conversation_status \in {"finished", "continued"}

\* Start button, lines 86-104, clicked while the script is at rest
ClickStart(n) ==
    /\ ScriptIdle
    /\ MayClick
    /\ StartEnabled
    /\ session_state.conversation_status \in {"idle", "finished", "continued"}
    /\ session_state' = [session_state EXCEPT
                            !.conversation_max_turns = n,
                            !.conversation_status = "running",
                            !.conversation_turns_completed = 0,
                            !.clicks = Append(@, "Start")]
    /\ UNCHANGED <<log_file, batch, api_key, scenario_name, caller_prompt, cfgA, cfgB,
                   experiment_id, persona_a_snapshot, persona_b_snapshot,
                   histA, histB, logs, pc, num_turns, initial_message, turn_id,
                   last_message, response, attempt, yielded, requests, oplog>>

\* Pause button, lines 106-115, clicked between two script runs of a running
\* conversation
ClickPause ==
    /\ ~session_state.in_loop
    /\ MayClick
    /\ PauseEnabled
    /\ session_state' = [session_state EXCEPT
                            !.conversation_status = "paused",
                            !.clicks = Append(@, "Pause")]
    /\ UNCHANGED <<log_file, batch, api_key, scenario_name, caller_prompt, cfgA, cfgB,
                   experiment_id, persona_a_snapshot, persona_b_snapshot,
                   histA, histB, logs, pc, num_turns, initial_message, turn_id,
                   last_message, response, attempt, yielded, requests, oplog>>

\* Continue button, lines 117-129
ClickContinue ==
    /\ ScriptIdle
    /\ MayClick
    /\ ContinueEnabled
    /\ session_state' = [session_state EXCEPT
                            !.conversation_status = "running",
                            !.clicks = Append(@, "Continue")]
    /\ UNCHANGED <<log_file, batch, api_key, scenario_name, caller_prompt, cfgA, cfgB,
                   experiment_id, persona_a_snapshot, persona_b_snapshot,
                   histA, histB, logs, pc, num_turns, initial_message, turn_id,
                   last_message, response, attempt, yielded, requests, oplog>>

\* the turns Extend Conversation adds, line 183
ExtendBy == 5

\* Extend Conversation button, lines 171-187
ClickExtend ==
    /\ ScriptIdle
    /\ MayClick
    /\ ExtendEnabled
    /\ session_state' = [session_state EXCEPT
                            !.conversation_max_turns = @ + ExtendBy,
                            !.conversation_status = "continued",
                            !.clicks = Append(@, "Extend")]
    /\ UNCHANGED <<log_file, batch, api_key, scenario_name, caller_prompt, cfgA, cfgB,
                   experiment_id, persona_a_snapshot, persona_b_snapshot,
                   histA, histB, logs, pc, num_turns, initial_message, turn_id,
                   last_message, response, attempt, yielded, requests, oplog>>

\* A script run with status "running", lines 348-399 and 460-463: the
\* Orchestrator is constructed if none is stored; then, below the message
\* limit, run_simulation(1, last_message) is called and the for loop is
\* entered; at the limit the status becomes "finished".
RunBlock(msg) ==
    /\ ~session_state.in_loop
    /\ session_state.conversation_status = "running"
    /\ LET construct    == ~session_state.orchestrator
           start        == IF construct /\ session_state.conversation_turns_completed = 0
                           THEN msg
                           ELSE session_state.conversation_start_message
           history      == session_state.conversation_history
           max_messages == session_state.conversation_max_turns * 2
       IN /\ IF construct
             THEN /\ histA' = InitialHistory(cfgA)
                  /\ histB' = InitialHistory(cfgB)
                  /\ logs' = << >>
                  /\ experiment_id' = FreshUuid
                  /\ scenario_name' = TabScenario
                  /\ persona_a_snapshot' = PersonaSnapshot(cfgA)
                  /\ persona_b_snapshot' = PersonaSnapshot(cfgB)
             ELSE UNCHANGED <<histA, histB, logs, experiment_id, scenario_name,
                              persona_a_snapshot, persona_b_snapshot>>
          /\ IF Len(history) < max_messages
             THEN /\ pc' = "created"
                  /\ num_turns' = 1
                  /\ initial_message' = (IF history # << >>
                                         THEN history[Len(history)].content
                                         ELSE start)
                  /\ session_state' = [session_state EXCEPT
                                          !.orchestrator = TRUE,
                                          !.conversation_start_message = start,
                                          !.in_loop = TRUE,
                                          !.messages_generated = 0]
             ELSE /\ session_state' = [session_state EXCEPT
                                          !.orchestrator = TRUE,
                                          !.conversation_start_message = start,
                                          !.conversation_status = "finished"]
                  /\ UNCHANGED <<pc, num_turns, initial_message>>
    /\ UNCHANGED <<log_file, batch, api_key, caller_prompt, cfgA, cfgB,
                   turn_id, last_message, response, attempt, yielded, requests, oplog>>

\* lines 431-451, the code after the for loop, given the history it finds
AfterLoopState(ss) ==
    IF Len(ss.conversation_history) >= ss.conversation_max_turns * 2
    THEN [ss EXCEPT !.conversation_turns_completed = Len(ss.conversation_history) \div 2,
                    !.conversation_status = "finished",
                    !.in_loop = FALSE]
    ELSE [ss EXCEPT !.conversation_turns_completed = Len(ss.conversation_history) \div 2,
                    !.conversation_status = "running",
                    !.in_loop = FALSE]

\* lines 436-442: save_logs runs when the limit has been reached
AfterLoopSaves(ss) ==
    Len(ss.conversation_history) >= ss.conversation_max_turns * 2

\* The body of the for loop for the entry just yielded, lines 401-429; when
\* the limit is reached the loop is left (break) and lines 431-451 follow.
LoopBody ==
    /\ session_state.in_loop
    /\ \/ pc = "yieldA" /\ session_state.messages_generated = 0
       \/ pc = "yieldB" /\ session_state.messages_generated = 1
    /\ LET log_entry == yielded[Len(yielded)]
           metrics   == session_state.conversation_metrics
           is_a      == log_entry.speaker_model = cfgA.model
           body      == [session_state EXCEPT
                            !.conversation_history = Append(@, log_entry),
                            !.conversation_metrics =
                                [total_tokens     |-> metrics.total_tokens + log_entry.output_tokens,
                                 total_messages   |-> metrics.total_messages + 1,
                                 agent_a_messages |-> metrics.agent_a_messages + (IF is_a THEN 1 ELSE 0),
                                 agent_b_messages |-> metrics.agent_b_messages + (IF is_a THEN 0 ELSE 1)],
                            !.messages_generated = @ + 1]
       IN IF AfterLoopSaves(body)
          THEN /\ session_state' = AfterLoopState(body)
               /\ log_file' = SaveLogs(log_file, logs)
               /\ oplog' = Append(oplog, Event("info", "logs saved", None, 0))
          ELSE /\ session_state' = body
               /\ UNCHANGED <<log_file, oplog>>
    /\ UNCHANGED <<batch, api_key, scenario_name, caller_prompt, cfgA, cfgB,
                   experiment_id, persona_a_snapshot, persona_b_snapshot,
                   histA, histB, logs, pc, num_turns, initial_message, turn_id,
                   last_message, response, attempt, yielded, requests>>

\* The generator is exhausted and the for loop ends: lines 431-451
AfterLoop ==
    /\ session_state.in_loop
    /\ pc = "done"
    /\ session_state' = AfterLoopState(session_state)
    /\ IF AfterLoopSaves(session_state)
       THEN /\ log_file' = SaveLogs(log_file, logs)
            /\ oplog' = Append(oplog, Event("info", "logs saved", None, 0))
       ELSE UNCHANGED <<log_file, oplog>>
    /\ UNCHANGED <<batch, api_key, scenario_name, caller_prompt, cfgA, cfgB,
                   experiment_id, persona_a_snapshot, persona_b_snapshot,
                   histA, histB, logs, pc, num_turns, initial_message, turn_id,
                   last_message, response, attempt, yielded, requests>>

\* A script run with a status other than "running", lines 465-470: the
\* stored Orchestrator is deleted
CleanUp ==
    /\ ~session_state.in_loop
    /\ session_state.conversation_status \in {"idle", "paused", "finished"}
    /\ session_state.orchestrator
    /\ session_state' = [session_state EXCEPT !.orchestrator = FALSE]
    /\ UNCHANGED <<log_file, batch, api_key, scenario_name, caller_prompt, cfgA, cfgB,
                   experiment_id, persona_a_snapshot, persona_b_snapshot,
                   histA, histB, logs, pc, num_turns, initial_message, turn_id,
                   last_message, response, attempt, yielded, requests, oplog>>

\* The for statement of line 397 asks for the next entry once the body is
\* through with the one before; after the break of line 429 the generator is
\* not resumed.
NextTab ==
    \/ \E n \in 1..MaxTurns : ClickStart(n)
    \/ ClickPause
    \/ ClickContinue
    \/ ClickExtend
    \/ RunBlock("Hello.")
    \/ LoopBody
    \/ AfterLoop
    \/ CleanUp
    \/ PullFirst
    \/ session_state.in_loop /\ session_state.messages_generated = 1 /\ PullAfterA
    \/ session_state.in_loop /\ session_state.messages_generated = 2 /\ PullAfterB
    \/ \E who \in {AgentAName, AgentBName} : AttemptRaises(who)
    \/ \E who \in {AgentAName, AgentBName}, resp \in TabResponses : AttemptReturns(who, resp)

SpecTab == InitTab /\ [][NextTab]_vars

-----------------------------------------------------------------------------
(* run_experiments (src/run_experiment.py) over all its combinations: four
   nested for loops, one new Orchestrator and one simulation per pass *)

\* the arguments of run_experiments: models (slugs in key order), scenarios
\* (name and system prompt, in key order), iterations
BatchModels    == << "m1", "m2" >>
BatchScenarios == << [scenario_name |-> "Strangers", system_prompt_base |-> "p1"] >>
Iterations     == 1

\* line 30
TotalExperiments ==
    Len(BatchModels) * Len(BatchModels) * Len(BatchScenarios) * Iterations

\* the loop variables of lines 36-39: indices of model A, model B and the
\* scenario, and i; AllDone when the loops are exhausted
AllDone == [model_a |-> 0, model_b |-> 0, scenario |-> 0, i |-> 0]
FirstCombination == [model_a |-> 1, model_b |-> 1, scenario |-> 1, i |-> 0]

\* Variant: the loop over model B does not advance
NextCombinationSkipsModelB(c) ==
    IF c.i + 1 < Iterations THEN [c EXCEPT !.i = @ + 1]
    ELSE IF c.scenario < Len(BatchScenarios)
         THEN [c EXCEPT !.i = 0, !.scenario = @ + 1]
    ELSE IF c.model_a < Len(BatchModels)
         THEN [c EXCEPT !.i = 0, !.scenario = 1, !.model_b = 1, !.model_a = @ + 1]
    ELSE AllDone

\* the pass of the nested loops that follows pass c: the innermost loop
\* advances first
NextCombination(c) ==
    IF c.i + 1 < Iterations THEN [c EXCEPT !.i = @ + 1]
    ELSE IF c.scenario < Len(BatchScenarios)
         THEN [c EXCEPT !.i = 0, !.scenario = @ + 1]
    ELSE IF c.model_b < Len(BatchModels)
         THEN [c EXCEPT !.i = 0, !.scenario = 1, !.model_b = @ + 1]
    ELSE IF c.model_a < Len(BatchModels)
         THEN [c EXCEPT !.i = 0, !.scenario = 1, !.model_b = 1, !.model_a = @ + 1]
    ELSE AllDone

\* lines 43-52: the agent configuration of a pass, without persona override
ExperimentConfig(model, c) ==
    [model |-> BatchModels[model],
     system_prompt |-> BatchScenarios[c.scenario].system_prompt_base,
     user_persona_snapshot |-> None]

\* run_experiments called with num_turns = n, before its first pass
BatchOf(n) ==
    [out |-> << >>, num_turns |-> n, current_experiment |-> 0,
     next |-> FirstCombination, started |-> << >>, completed |-> FALSE]

\* Variant: the Orchestrator of the pass before is used again
StartExperimentKeepsOrchestrator ==
    /\ ~batch.completed
    /\ batch.next # AllDone
    /\ batch.current_experiment = 0 \/ (pc = "done" /\ PassedOn)
    /\ LET c == batch.next
           a == ExperimentConfig(c.model_a, c)
           b == ExperimentConfig(c.model_b, c)
           k == batch.current_experiment + 1
       IN /\ batch' = [batch EXCEPT !.current_experiment = k,
                                     !.next = NextCombination(c),
                                     !.started = Append(@, c)]
          /\ oplog' = Append(oplog, Event("info", "experiment", None, k))
          /\ cfgA' = a
          /\ cfgB' = b
          /\ caller_prompt' = [w \in {AgentAName, AgentBName} |->
                                  IF w = AgentAName THEN a.system_prompt ELSE b.system_prompt]
          /\ scenario_name' = BatchScenarios[c.scenario].scenario_name
          /\ persona_a_snapshot' = PersonaSnapshot(a)
          /\ persona_b_snapshot' = PersonaSnapshot(b)
          /\ UNCHANGED <<experiment_id, histA, histB, logs>>
          /\ pc' = "created"
          /\ num_turns' = batch.num_turns
          /\ initial_message' = "Hello."
    /\ UNCHANGED <<log_file, session_state, api_key, turn_id, last_message,
                   response, attempt, yielded, requests>>

\* One pass of the loops up to the for statement of line 62: the counter
\* and its log line (40-41), the two configurations (43-52), a new
\* Orchestrator (55-59: new agents, empty logs, a fresh uuid4), and the call
\* run_simulation(num_turns) with the default initial message.  The pass
\* before has ended: its generator is exhausted and its last entry passed on.
StartExperiment ==
    /\ ~batch.completed
    /\ batch.next # AllDone
    /\ batch.current_experiment = 0 \/ (pc = "done" /\ PassedOn)
    /\ LET c == batch.next
           a == ExperimentConfig(c.model_a, c)
           b == ExperimentConfig(c.model_b, c)
           k == batch.current_experiment + 1
       IN /\ batch' = [batch EXCEPT !.current_experiment = k,
                                     !.next = NextCombination(c),
                                     !.started = Append(@, c)]
          /\ oplog' = Append(oplog, Event("info", "experiment", None, k))
          /\ cfgA' = a
          /\ cfgB' = b
          /\ caller_prompt' = [w \in {AgentAName, AgentBName} |->
                                  IF w = AgentAName THEN a.system_prompt ELSE b.system_prompt]
          /\ scenario_name' = BatchScenarios[c.scenario].scenario_name
          /\ persona_a_snapshot' = PersonaSnapshot(a)
          /\ persona_b_snapshot' = PersonaSnapshot(b)
          /\ experiment_id' = Uuids[k]
          /\ histA' = InitialHistory(a)
          /\ histB' = InitialHistory(b)
          /\ logs' = << >>
          /\ pc' = "created"
          /\ num_turns' = batch.num_turns
          /\ initial_message' = "Hello."
    /\ UNCHANGED <<log_file, session_state, api_key, turn_id, last_message,
                   response, attempt, yielded, requests>>

\* line 67: the loops are exhausted
CompleteBatch ==
    /\ ~batch.completed
    /\ batch.next = AllDone
    /\ pc = "done" /\ PassedOn
    /\ batch' = [batch EXCEPT !.completed = TRUE]
    /\ oplog' = Append(oplog, Event("info", "all experiments completed", None, 0))
    /\ UNCHANGED <<log_file, session_state, api_key, scenario_name, caller_prompt,
                   cfgA, cfgB, experiment_id, persona_a_snapshot, persona_b_snapshot,
                   histA, histB, logs, pc, num_turns, initial_message, turn_id,
                   last_message, response, attempt, yielded, requests>>

NextExperiments ==
    \/ StartExperiment
    \/ CompleteBatch
    \/ PullFirst
    \/ PassedOn /\ PullAfterA
    \/ PassedOn /\ PullAfterB
    \/ \E who \in {AgentAName, AgentBName} : AttemptRaises(who)
    \/ \E who \in {AgentAName, AgentBName}, resp \in TabResponses : AttemptReturns(who, resp)
    \/ HandleEntry

\* run_experiments is called; nothing is constructed yet.  The agent
\* variables hold what the first pass will put there.
InitExperiments ==
    /\ \E n \in 1..BatchTurns : batch = BatchOf(n)
    /\ api_key = "sk-key"
    /\ cfgA = ExperimentConfig(FirstCombination.model_a, FirstCombination)
    /\ cfgB = ExperimentConfig(FirstCombination.model_b, FirstCombination)
    /\ experiment_id = Uuid4
    /\ scenario_name = BatchScenarios[1].scenario_name
    /\ caller_prompt = [w \in {AgentAName, AgentBName} |->
                          IF w = AgentAName THEN cfgA.system_prompt ELSE cfgB.system_prompt]
    /\ persona_a_snapshot = PersonaSnapshot(cfgA)
    /\ persona_b_snapshot = PersonaSnapshot(cfgB)
    /\ histA = InitialHistory(cfgA)
    /\ histB = InitialHistory(cfgB)
    /\ logs = << >>
    /\ pc = "idle"
    /\ num_turns = 0
    /\ initial_message = "Hello."
    /\ turn_id = 0
    /\ last_message = "Hello."
    /\ response = NoResponse
    /\ attempt = 0
    /\ yielded = << >>
    /\ requests = << >>
    /\ oplog = << >>
    /\ log_file = << >>
    /\ session_state = NoSession

SpecExperiments == InitExperiments /\ [][NextExperiments]_vars

-----------------------------------------------------------------------------
(* Reading the recorded run *)

\* the requests that returned a response, in order: one per Log Entry
Returned == SelectSeq(requests, LAMBDA r : r.outcome = "returned")

\* how many replies had returned before request j was sent
ReturnedBefore(j) == Cardinality({ i \in 1..(j - 1) : requests[i].outcome = "returned" })

\* a reply whose last allowed attempt raised
Exhausted(j) == requests[j].outcome = "raised" /\ requests[j].attempt = MaxAttempts
TurnFailed == \E j \in DOMAIN requests : Exhausted(j)

NoRefusal == \A i \in DOMAIN logs : ~logs[i].is_refusal

\* The run state of section 4.3, which the code keeps implicitly: the
\* generator's position, and the branch through which the loop was left as
\* the logger recorded it.
RunState ==
    IF pc \in {"idle", "created"} THEN "idle"
    ELSE IF pc # "done" THEN "running"
    ELSE IF \E k \in DOMAIN oplog : oplog[k].event = "failed turn" THEN "aborted"
    ELSE "completed"

-----------------------------------------------------------------------------
(* Claims *)

\* C1: a drained run of num_turns = n in which every reply succeeds with a
\* non-refusal result has yielded exactly 2n Log Entries (none when n = 0).
C1_FullRunYields2n ==
    (pc = "done" /\ NoRefusal /\ ~TurnFailed) => Len(yielded) = 2 * num_turns

C1_Witness ==
    /\ pc = "done" /\ NoRefusal /\ ~TurnFailed
    /\ num_turns = 2 /\ Len(yielded) = 4
    /\ \E j \in DOMAIN requests : requests[j].attempt = 2

\* C2: the yielded entries alternate strictly, starting with Agent A: the
\* entry at an even position (from 0) has speaker = A's model id and
\* responder = B's, at an odd position the reverse, and the replies behind
\* consecutive entries never come from the same agent.
C2_StrictAlternation ==
    /\ Len(Returned) = Len(yielded)
    /\ \A i \in DOMAIN yielded :
          IF (i - 1) % 2 = 0
          THEN /\ yielded[i].speaker_model = cfgA.model
               /\ yielded[i].responder_model = cfgB.model
               /\ Returned[i].agent = AgentAName
          ELSE /\ yielded[i].speaker_model = cfgB.model
               /\ yielded[i].responder_model = cfgA.model
               /\ Returned[i].agent = AgentBName
    /\ \A i \in DOMAIN Returned : i > 1 => Returned[i].agent # Returned[i - 1].agent

C2_Witness ==
    /\ Len(yielded) = 4
    /\ cfgA.model # cfgB.model
    /\ yielded[3].speaker_model = cfgA.model
    /\ yielded[4].speaker_model = cfgB.model

\* C3: the inbound text of every request of A's first reply is the caller's
\* initial_message, and the inbound text of every later reply is the content
\* of the Log Entry just before it.
C3_RepliesToPrecedingTurn ==
    \A j \in DOMAIN requests :
        LET k == ReturnedBefore(j)
        IN  requests[j].input_text =
                (IF k = 0 THEN initial_message ELSE logs[k].content)

C3_Witness ==
    /\ Len(requests) >= 3
    /\ ReturnedBefore(Len(requests)) = 2
    /\ requests[Len(requests)].agent = AgentAName
    /\ requests[Len(requests)].input_text = logs[2].content
    /\ logs[2].content # logs[1].content
    /\ logs[2].content # initial_message

\* C4: the entry at position i (from 0) of a run has turn_id = i div 2: both
\* entries of a round share the turn_id, the first round has 0, and it grows
\* by 1 from round to round.
C4_TurnIdPerRound ==
    \A i \in DOMAIN yielded : yielded[i].turn_id = (i - 1) \div 2

C4_Witness ==
    /\ Len(yielded) = 4
    /\ yielded[1].turn_id = 0 /\ yielded[2].turn_id = 0
    /\ yielded[3].turn_id = 1 /\ yielded[4].turn_id = 1

\* C5: a result's is_refusal is true exactly when the content is empty or
\* absent or the finish reason is "content_filter".
C5_RefusalIffEmptyOrFiltered ==
    /\ \A i \in DOMAIN logs :
          logs[i].is_refusal <=>
              (logs[i].content \in {None, ""} \/ logs[i].finish_reason = "content_filter")
    /\ pc \in {"yieldA", "yieldB"} =>
          (response.is_refusal <=>
              (response.content \in {None, ""} \/ response.finish_reason = "content_filter"))

C5_Witness ==
    /\ Len(logs) = 2
    /\ ~logs[1].is_refusal /\ logs[1].finish_reason = "length"
    /\ logs[2].is_refusal /\ logs[2].content = "x"
    /\ logs[2].finish_reason = "content_filter"

\* C6: a refusal ends the run: the refusing entry has been yielded, it is the
\* last entry, the request that produced it is the last request ever made,
\* and the generator is suspended on it or finished.
C6_RefusalEndsRun ==
    \A i \in DOMAIN logs :
        logs[i].is_refusal =>
            /\ i = Len(logs)
            /\ yielded = logs
            /\ requests[Len(requests)].outcome = "returned"
            /\ ReturnedBefore(Len(requests)) = i - 1
            /\ pc \in {"yieldA", "yieldB", "done"}

C6_Witness ==
    /\ pc = "done"
    /\ num_turns = 2
    /\ Len(logs) = 1
    /\ logs[1].is_refusal
    /\ requests[Len(requests)].agent = AgentAName

\* C7: in a finished run without call failure that a refusal truncated, the
\* number of entries is 2r+1 when A refused in round r and 2r+2 when B did:
\* odd exactly when the refusing agent is A.
C7_RefusalCountParity ==
    (pc = "done" /\ ~TurnFailed) =>
        \A i \in DOMAIN logs :
            logs[i].is_refusal =>
                /\ Len(yielded) = (IF Returned[i].agent = AgentAName
                                   THEN 2 * logs[i].turn_id + 1
                                   ELSE 2 * logs[i].turn_id + 2)
                /\ (Len(yielded) % 2 = 1) <=> (Returned[i].agent = AgentAName)

C7_Witness ==
    /\ pc = "done" /\ ~TurnFailed
    /\ Len(yielded) = 3
    /\ logs[3].is_refusal
    /\ logs[3].turn_id = 1
    /\ Returned[3].agent = AgentAName

\* C8: when a call fails on all 3 attempts the failure reaches the
\* Orchestrator, which records it and stops: the run is aborted, the failed
\* request is the last one made, and the failed turn has no entry in logs or
\* among the yielded items.
C8_ExhaustedCallAborts ==
    \A j \in DOMAIN requests :
        Exhausted(j) =>
            /\ j = Len(requests)
            /\ RunState = "aborted"
            /\ \E k \in DOMAIN oplog :
                  oplog[k] = Event("error", "failed turn", requests[j].agent, requests[j].turn_id)
            /\ Len(logs) = ReturnedBefore(j)
            /\ yielded = logs

C8_Witness ==
    /\ Len(requests) = 4
    /\ Exhausted(4)
    /\ requests[4].agent = AgentBName
    /\ Len(logs) = 1
    /\ RunState = "aborted"

\* C9: a reply whose attempts 1 and 2 raised and whose attempt 3 returned
\* gives a normal result: one entry is yielded for it, no turn failure is
\* recorded, and the run goes on from the state a success of the first
\* attempt would have left, the replying agent's history included.
C9_ThirdAttemptAsFirst ==
    (/\ pc \in {"yieldA", "yieldB"}
     /\ requests # << >>
     /\ requests[Len(requests)].attempt = 3) =>
        LET j     == Len(requests)
            hist  == IF requests[j].agent = AgentAName THEN histA ELSE histB
            first == requests[j - 2].messages
        IN  /\ Len(yielded) = ReturnedBefore(j) + 1
            /\ yielded[Len(yielded)].content = response.content
            /\ ~TurnFailed
            /\ hist = (IF response.content \in {None, ""} THEN first
                       ELSE Append(first, Message("assistant", response.content)))

\* C10: every reply makes at least 1 and at most 3 requests: attempt k+1
\* follows only a raise of attempt k of the same reply, a new reply starts
\* only after the one before returned, and there is no fourth attempt.
C10_OneToThreeAttempts ==
    /\ \A j \in DOMAIN requests :
          /\ requests[j].attempt \in 1..3
          /\ requests[j].attempt > 1 =>
                /\ requests[j - 1].outcome = "raised"
                /\ requests[j - 1].attempt = requests[j].attempt - 1
                /\ requests[j - 1].agent = requests[j].agent
                /\ requests[j - 1].turn_id = requests[j].turn_id
          /\ (requests[j].attempt = 1 /\ j > 1) => requests[j - 1].outcome = "returned"
    /\ Len(Returned) = Len(logs)

C10_Witness ==
    /\ Len(requests) = 4
    /\ requests[1].attempt = 1 /\ requests[1].outcome = "returned"
    /\ requests[2].attempt = 1 /\ requests[2].outcome = "raised"
    /\ requests[3].attempt = 2 /\ requests[3].outcome = "raised"
    /\ requests[4].attempt = 3 /\ requests[4].outcome = "returned"

-----------------------------------------------------------------------------
(* Agent histories *)

HistoryOf(who) == IF who = AgentAName THEN histA ELSE histB

\* the positions in logs of the entries an agent spoke
EntriesOf(who) == { i \in DOMAIN logs : Returned[i].agent = who }

\* the agent is not inside generate_response, and none of its replies failed
AtRest(who) ==
    /\ pc # (IF who = AgentAName THEN "callA" ELSE "callB")
    /\ \A j \in DOMAIN requests : requests[j].agent = who => ~Exhausted(j)

\* the history the agent had when its current or last reply was entered:
\* what the first attempt of that reply sent, without the user message
BeforeReply ==
    LET j0 == Len(requests) - requests[Len(requests)].attempt + 1
    IN  SubSeq(requests[j0].messages, 1, Len(requests[j0].messages) - 1)

IsPrefix(s, t) == Len(s) <= Len(t) /\ SubSeq(t, 1, Len(s)) = s

\* C11: after k replies of an agent that each ended with non-empty,
\* non-refusing content, whatever the number of attempts, the agent's history
\* has 1 + 2k messages: system, then user and assistant alternating.
C11_HistoryLengthAfterReplies ==
    \A who \in {AgentAName, AgentBName} :
        (/\ AtRest(who)
         /\ \A i \in EntriesOf(who) : ~logs[i].is_refusal /\ Truthy(logs[i].content)) =>
            LET h == HistoryOf(who)
                k == Cardinality(EntriesOf(who))
            IN  /\ Len(h) = 1 + 2 * k
                /\ h[1].role = "system"
                /\ \A m \in 2..Len(h) :
                      h[m].role = (IF m % 2 = 0 THEN "user" ELSE "assistant")

\* C12: a reply whose result is a refusal (by either sub-condition) adds
\* exactly one message to the replying agent's history, the user message, and
\* no assistant message.
C12_RefusalAddsUserOnly ==
    (pc \in {"yieldA", "yieldB"} /\ response.is_refusal) =>
        LET who == requests[Len(requests)].agent
            h   == HistoryOf(who)
        IN  /\ Len(h) = Len(BeforeReply) + 1
            /\ h = Append(BeforeReply, Message("user", requests[Len(requests)].input_text))

\* C13: once a turn has failed (the last attempt of a reply raised) nothing
\* more happens in the run: no request is made by either agent, no entry is
\* appended or yielded, and the generator has returned.
C13_NothingAfterTurnFailure ==
    /\ [](TurnFailed =>
            /\ pc = "done"
            /\ Exhausted(Len(requests))
            /\ Len(yielded) = Len(Returned))
    /\ [][TurnFailed =>
            /\ requests' = requests
            /\ logs' = logs
            /\ yielded' = yielded
            /\ histA' = histA /\ histB' = histB]_vars

C13_Witness ==
    /\ TurnFailed
    /\ num_turns = 2
    /\ Len(requests) = 3
    /\ requests[3].agent = AgentAName
    /\ requests[3].turn_id = 0
    /\ histB = InitialHistory(cfgB)
    /\ yielded = << >>

-----------------------------------------------------------------------------
(* Terminal state *)

\* What the caller holds when the generator is exhausted: the num_turns it
\* passed and the items it received.  A run that stopped short of 2 * num_turns
\* items without ending on a refusal stopped on a failed turn.
CallerSeesAbort ==
    /\ Len(yielded) < 2 * num_turns
    /\ (yielded = << >> \/ ~yielded[Len(yielded)].is_refusal)

-----------------------------------------------------------------------------
(* History and stream discipline *)

\* C16: each agent's history starts with the system message holding the
\* prompt given at construction, and every step leaves the old history as a
\* prefix of the new one: messages are only appended.
C16_HistoryAppendOnly ==
    /\ [](/\ histA # << >> /\ histA[1] = Message("system", cfgA.system_prompt)
          /\ histB # << >> /\ histB[1] = Message("system", cfgB.system_prompt))
    /\ [][IsPrefix(histA, histA') /\ IsPrefix(histB, histB')]_vars

C16_Witness ==
    /\ Len(histA) = 5
    /\ Len(histB) = 3
    /\ histA[1] = Message("system", cfgA.system_prompt)
    /\ histA[4].role = "user"
    /\ histA[5].role = "assistant"

\* C18: the stream is lazy and unbuffered: a request is made only while the
\* caller is inside next() and holds every entry built so far, and while the
\* generator is suspended on an entry (or not started, or finished) no request
\* is made and nothing is appended, however long the caller stays away.
C18_LazyUnbufferedStream ==
    /\ [](yielded = logs /\ Len(yielded) = Len(Returned))
    /\ [][requests' # requests =>
             /\ pc \in {"callA", "callB"}
             /\ yielded = logs
             /\ Len(yielded') <= Len(yielded) + 1]_vars
    /\ [][(pc \in {"idle", "created", "yieldA", "yieldB", "done"}) =>
             /\ requests' = requests
             /\ logs' = logs
             /\ histA' = histA /\ histB' = histB]_vars

C18_Witness ==
    /\ pc = "yieldA"
    /\ turn_id = 1
    /\ Len(yielded) = 3
    /\ Len(Returned) = 3
    /\ yielded[3] = logs[3]

-----------------------------------------------------------------------------
(* Lifetime of the Orchestrator *)

\* C15: Orchestrator.logs is append-only over the Orchestrator's lifetime:
\* in every step the old logs is a prefix of the new one, also across runs
\* and when a run aborts or stops on a refusal; the same holds of what the
\* caller has received.
C15_LogsAppendOnly ==
    [][IsPrefix(logs, logs') /\ IsPrefix(yielded, yielded')]_vars

C15_Witness ==
    /\ RunsStarted = 2
    /\ Len(logs) = 2
    /\ logs[1].is_refusal
    /\ logs[1].turn_id = 0
    /\ logs[2].turn_id = 0
    /\ \E k \in DOMAIN oplog : oplog[k].event = "failed turn"

\* C17: every entry's system_prompt_snapshot is the persona text fixed for
\* its speaker at construction (the user_persona_snapshot override if given,
\* else that agent's system prompt), whatever the caller has since put into
\* its own prompt variables.
C17_SnapshotFixedAtConstruction ==
    /\ [](\A i \in DOMAIN logs :
            LET cfg == IF Returned[i].agent = AgentAName THEN cfgA ELSE cfgB
            IN  logs[i].system_prompt_snapshot =
                    (IF cfg.user_persona_snapshot # None
                     THEN cfg.user_persona_snapshot ELSE cfg.system_prompt))
    /\ [][/\ persona_a_snapshot' = persona_a_snapshot
          /\ persona_b_snapshot' = persona_b_snapshot]_vars

C17_Witness ==
    /\ caller_prompt[AgentAName] = EditedPrompt
    /\ caller_prompt[AgentBName] = EditedPrompt
    /\ cfgA.user_persona_snapshot = None
    /\ cfgB.user_persona_snapshot # None
    /\ Len(logs) = 4
    /\ logs[3].system_prompt_snapshot = cfgA.system_prompt
    /\ logs[4].system_prompt_snapshot = cfgB.user_persona_snapshot

\* C19: when no API credential is set (unset or empty) at construction, the
\* construction has failed with the configuration error and nothing else ever
\* happens: no request, no Log Entry, no logged event; and the configuration
\* error occurs for no other reason.
C19_NoCredentialFailsConstruction ==
    /\ api_key \in {None, ""} =>
          /\ pc = "config_error"
          /\ requests = << >>
          /\ logs = << >>
          /\ yielded = << >>
          /\ oplog = << >>
    /\ pc = "config_error" => api_key \in {None, ""}

C19_Witness ==
    /\ api_key = ""
    /\ pc = "config_error"
    /\ requests = << >>

\* C20: all entries in logs carry the experiment_id and the scenario label
\* the Orchestrator got at construction, and neither ever changes.
C20_SameExperimentAndScenario ==
    /\ [](\A i \in DOMAIN logs :
            /\ logs[i].experiment_id = experiment_id
            /\ logs[i].scenario = scenario_name
            /\ logs[i].experiment_id = logs[1].experiment_id
            /\ logs[i].scenario = logs[1].scenario)
    /\ [][experiment_id' = experiment_id /\ scenario_name' = scenario_name]_vars

C20_Witness ==
    /\ RunsStarted = 2
    /\ Len(logs) = 4
    /\ experiment_id = Uuid4
    /\ logs[1].experiment_id = Uuid4
    /\ logs[4].experiment_id = Uuid4
    /\ logs[4].scenario = "Strangers"

\* C21: every attempt of one reply sends the same message list, which ends in
\* a single copy of the inbound user message: the message is appended once
\* per reply, before the first request, however many attempts are made.
C21_UserMessageOncePerReply ==
    \A j \in DOMAIN requests :
        LET m == requests[j].messages
        IN /\ m[Len(m)] = Message("user", requests[j].input_text)
           /\ requests[j].attempt > 1 => m = requests[j - 1].messages

\* C22: a reply changes the history of the replying agent only.  A step that
\* changes a history is an attempt of that agent (a request of its goes out in
\* the same step) and leaves the other agent's history alone; after an attempt
\* that returned, the agent's history is the message list it sent plus at
\* most its own assistant message, so that building, appending and yielding
\* the entry added nothing; a step without a request changes no history.
C22_ReplyChangesOwnHistoryOnly ==
    [][ LET sent == requests'[Len(requests')]
            Own(who, old, new, other, otherNew) ==
                new # old =>
                    /\ Len(requests') = Len(requests) + 1
                    /\ sent.agent = who
                    /\ otherNew = other
                    /\ \/ new = sent.messages
                       \/ /\ sent.outcome = "returned"
                          /\ new = Append(sent.messages,
                                          Message("assistant", logs'[Len(logs')].content))
        IN /\ Own(AgentAName, histA, histA', histB, histB')
           /\ Own(AgentBName, histB, histB', histA, histA')
           /\ (requests' = requests) => (histA' = histA /\ histB' = histB) ]_vars

C22_Witness ==
    /\ pc = "yieldB"
    /\ Len(logs) = 2
    /\ histA = << Message("system", cfgA.system_prompt), Message("user", "Hello."),
                  Message("assistant", "x") >>
    /\ histB = << Message("system", cfgB.system_prompt), Message("user", "x"),
                  Message("assistant", "y") >>

\* C23: the completion calls of one run are made one at a time, in order.
\* generate_response blocks until its request has returned or raised, so a
\* request is in flight only within the step of its attempt.  A step sends at
\* most one request, and when it is sent every earlier request has its
\* outcome and every entry built so far has been yielded to the caller.  The
\* first request of B's reply in a round follows A's returned request of that
\* round, whose entry is the last one yielded; the first request of A's reply
\* in a later round follows B's returned request of the round before.
C23_OneRequestAtATime ==
    [][ requests' # requests =>
          LET j    == Len(requests')
              sent == requests'[j]
              prev == requests[j - 1]
          IN /\ j = Len(requests) + 1
             /\ SubSeq(requests', 1, j - 1) = requests
             /\ pc \in {"callA", "callB"}
             /\ yielded = logs
             /\ Len(yielded) = Len(Returned)
             /\ sent.attempt > 1 =>
                   /\ prev.agent = sent.agent
                   /\ prev.outcome = "raised"
                   /\ prev.turn_id = sent.turn_id
             /\ (sent.attempt = 1 /\ sent.agent = AgentBName) =>
                   /\ prev.agent = AgentAName
                   /\ prev.outcome = "returned"
                   /\ prev.turn_id = sent.turn_id
                   /\ yielded[Len(yielded)].turn_id = sent.turn_id
                   /\ yielded[Len(yielded)].content = sent.input_text
             /\ (sent.attempt = 1 /\ sent.agent = AgentAName /\ j > 1) =>
                   /\ prev.agent = AgentBName
                   /\ prev.outcome = "returned"
                   /\ prev.turn_id = sent.turn_id - 1
                   /\ yielded[Len(yielded)].turn_id = sent.turn_id - 1 ]_vars

C23_Witness ==
    /\ num_turns = 2
    /\ Len(requests) = 5
    /\ requests[1].outcome = "raised"
    /\ requests[3].agent = AgentBName
    /\ requests[4].outcome = "raised"
    /\ requests[5].agent = AgentAName /\ requests[5].turn_id = 1
    /\ Len(yielded) = 3

\* C24: before every attempt after the first of one call the client has
\* slept a delay of at least 4 and at most 10 time units: the exponential
\* delay, 1 before the second attempt and doubled before each later one,
\* clamped to that range.  Nothing is slept before a first attempt.
C24_BackoffWithinFloorAndCeiling ==
    \A j \in DOMAIN requests :
        LET k    == requests[j].attempt
            base == WaitMultiplier * ExpBase ^ (k - 2)
        IN IF k = 1
           THEN requests[j].waited = 0
           ELSE /\ requests[j].waited >= WaitMin
                /\ requests[j].waited <= WaitMax
                /\ requests[j].waited =
                       (IF base < WaitMin THEN WaitMin
                        ELSE IF base > WaitMax THEN WaitMax ELSE base)
                /\ requests[j - 1].outcome = "raised"
                /\ requests[j - 1].attempt = k - 1

C24_Witness ==
    \E j \in DOMAIN requests :
        /\ requests[j].attempt = MaxAttempts
        /\ requests[j].waited = WaitMin
        /\ requests[j - 1].waited = WaitMin
        /\ requests[j - 2].waited = 0

\* C25: a response without usage metadata gives a Turn Result with input and
\* output token counts 0 and raises nothing: the attempt returns, no error is
\* logged for it, and its turn is logged and yielded like any other, with the
\* content, finish reason and latency of the response.
C25_NoUsageMeansZeroTokens ==
    /\ \A j \in DOMAIN requests :
          (requests[j].outcome = "returned" /\ ~requests[j].answer.usage.present) =>
              LET i == ReturnedBefore(j) + 1
              IN /\ i <= Len(logs)
                 /\ logs[i].input_tokens = 0
                 /\ logs[i].output_tokens = 0
                 /\ logs[i].content = requests[j].answer.content
                 /\ logs[i].finish_reason = requests[j].answer.finish_reason
                 /\ logs[i].latency_ms = requests[j].answer.latency_ms
                 /\ logs[i].turn_id = requests[j].turn_id
                 /\ yielded[i] = logs[i]
    /\ Cardinality({ k \in DOMAIN oplog : oplog[k].level = "error" /\
                                          oplog[k].event = "error generating" }) = Raised

C25_Witness ==
    /\ Len(logs) = 3
    /\ ~Returned[2].answer.usage.present
    /\ logs[2].content = "y"
    /\ logs[2].input_tokens = 0 /\ logs[2].output_tokens = 0
    /\ Returned[3].answer.usage.present
    /\ logs[3].output_tokens = 7

\* C26: whenever the generator is not executing (not yet started, suspended
\* on a yield, or finished), the logs of the Orchestrator are exactly the
\* entries it has yielded so far, in yield order, over all its run_simulation
\* calls; logs and the yielded stream grow together, by the same entry, and
\* only into a suspension on that entry.
C26_LogsAreTheYieldedEntries ==
    /\ []((pc \in {"idle", "created", "yieldA", "yieldB", "done"}) => logs = yielded)
    /\ [][ (logs' # logs \/ yielded' # yielded) =>
              /\ logs' = Append(logs, logs'[Len(logs')])
              /\ yielded' = Append(yielded, logs'[Len(logs')])
              /\ pc' \in {"yieldA", "yieldB"} ]_vars

C26_Witness ==
    /\ RunsStarted = 2
    /\ pc = "yieldA"
    /\ Len(logs) = 3
    /\ logs[3].is_refusal
    /\ yielded = logs

\* generate_response calls so far: one per first attempt
Replies == Cardinality({ j \in DOMAIN requests : requests[j].attempt = 1 })

\* C28: a run of any num_turns that the caller keeps pulling terminates,
\* whatever each attempt does.  At every moment at most 2 * num_turns replies
\* have been asked for and at most three requests sent per reply, hence at
\* most 6 * num_turns requests; and once run_simulation has been called the
\* generator reaches its end.
C28_RunTerminatesWithinBounds ==
    /\ [](/\ Replies <= 2 * num_turns
          /\ Len(requests) <= MaxAttempts * Replies
          /\ Len(requests) <= 2 * MaxAttempts * num_turns)
    /\ (pc = "created") ~> (pc = "done")

C28_Witness ==
    /\ pc = "done"
    /\ num_turns = 2
    /\ Replies = 2 * num_turns
    /\ \E j \in DOMAIN requests : requests[j].attempt = MaxAttempts
    /\ Len(requests) = 7

\* C29: over the lifetime of one Orchestrator, through all its run_simulation
\* calls, the entries in logs keep turn_id identical within a round (B's entry
\* has the turn_id of the A entry before it) and strictly increasing from each
\* round to the next (an A entry has a larger turn_id than the entry before).
C29_TurnIdIncreasesOverLifetime ==
    \A i \in 1..(Len(logs) - 1) :
        IF Returned[i + 1].agent = AgentBName
        THEN logs[i + 1].turn_id = logs[i].turn_id
        ELSE logs[i + 1].turn_id > logs[i].turn_id

\* the lines of the log file that belong to this Orchestrator's experiment
LinesOfExperiment ==
    SelectSeq(log_file, LAMBDA l : l.json.experiment_id = experiment_id)

\* C27: when run_experiments has drained a simulation, saving after each
\* entry, the file has gained exactly one line per yielded entry, in yield
\* order: no entry is written twice.  The lines of earlier experiments stay
\* where they were.
C27_FileGainsOneLinePerEntry ==
    (pc = "done" /\ PassedOn) =>
        /\ LinesOfExperiment = [i \in 1..Len(yielded) |-> JsonLine(yielded[i])]
        /\ Len(log_file) - Len(LinesOfExperiment) <= 1

\* the conversation history of the tab holds a refusal
HistoryHasRefusal ==
    \E i \in DOMAIN session_state.conversation_history :
        session_state.conversation_history[i].is_refusal

\* C30: in the conversation tab a refusal ends the conversation.  Once a
\* refusing entry is in conversation_history, no completion request is sent
\* any more, and when the script run that added it is over the status is not
\* "running".
C30_RefusalEndsConversation ==
    /\ []((HistoryHasRefusal /\ ~session_state.in_loop) =>
              session_state.conversation_status # "running")
    /\ [][ HistoryHasRefusal => requests' = requests ]_vars

\* The tab opened with the same model chosen for both agents, as with the
\* defaults of gui_app.py lines 73 and 78; only the system prompts differ.
SameModelA == [model |-> "m1", system_prompt |-> "p1", user_persona_snapshot |-> None]
SameModelB == [model |-> "m1", system_prompt |-> "p2", user_persona_snapshot |-> None]

InitTabSameModel ==
    /\ api_key = "sk-key"
    /\ cfgA = SameModelA
    /\ cfgB = SameModelB
    /\ experiment_id = Uuid4
    /\ scenario_name = TabScenario
    /\ caller_prompt = [w \in {AgentAName, AgentBName} |->
                          IF w = AgentAName THEN cfgA.system_prompt ELSE cfgB.system_prompt]
    /\ persona_a_snapshot = PersonaSnapshot(cfgA)
    /\ persona_b_snapshot = PersonaSnapshot(cfgB)
    /\ histA = InitialHistory(cfgA)
    /\ histB = InitialHistory(cfgB)
    /\ logs = << >>
    /\ pc = "idle"
    /\ num_turns = 0
    /\ initial_message = "Hello."
    /\ turn_id = 0
    /\ last_message = "Hello."
    /\ response = NoResponse
    /\ attempt = 0
    /\ yielded = << >>
    /\ requests = << >>
    /\ oplog = << >>
    /\ log_file = << >>
    /\ batch = NoBatch
    /\ session_state = NoSession

SpecTabSameModel == InitTabSameModel /\ [][NextTab]_vars

\* ---- C31 ----
\* C31: with no further user action a conversation in status running
\* eventually leaves running, also when an agent's completion calls keep
\* failing.  The history is the only thing that brings a running conversation
\* nearer to its limit, so every script run that has entered the loop must
\* leave status running or have added an entry: a script run that ends in
\* running with nothing added is repeated unchanged by the st.rerun() of
\* line 451, for as long as the calls fail.
C31_RunningScriptRunMakesProgress ==
    [][(session_state.in_loop /\ ~session_state'.in_loop) =>
          \/ session_state'.conversation_status # "running"
          \/ session_state'.messages_generated > 0]_vars

\* ---- C32 ----
\* how often the user has clicked a control of the tab
Clicked(control) ==
    Cardinality({ i \in DOMAIN session_state.clicks : session_state.clicks[i] = control })

\* the entries of conversation_history with a reply of the agent using model m
SpokenBy(m) ==
    SelectSeq(session_state.conversation_history,
              LAMBDA e : e.speaker_model = m /\ Truthy(e.content))

\* the replies an agent holds in its history
AssistantMessages(hist) == SelectSeq(hist, LAMBDA msg : msg.role = "assistant")

\* C32: Pause followed by Continue resumes the conversation where it left
\* off.  In a conversation started once (whatever Pause, Continue and Extend
\* clicks followed), the agents at work hold every reply they have given in
\* the conversation so far, and all entries of conversation_history carry
\* one experiment_id.
C32_PauseContinueResumes ==
    (Clicked("Start") = 1) =>
        /\ (session_state.in_loop =>
               /\ Len(AssistantMessages(histA)) >= Len(SpokenBy(cfgA.model))
               /\ Len(AssistantMessages(histB)) >= Len(SpokenBy(cfgB.model)))
        /\ \A i, k \in DOMAIN session_state.conversation_history :
               session_state.conversation_history[i].experiment_id
                   = session_state.conversation_history[k].experiment_id

\* ---- C33 ----
\* C33: after Extend Conversation (status continued, the limit raised by
\* ExtendBy) the Continue control is enabled on the page, and no control
\* that can be used in status continued lowers conversation_max_turns.
C33_ExtendedLimitIsKept ==
    /\ [](session_state.conversation_status = "continued" => ContinueEnabled)
    /\ [][(session_state.conversation_status = "continued") =>
             session_state'.conversation_max_turns
                 >= session_state.conversation_max_turns]_vars

\* ---- C34 ----
\* how often x occurs in a sequence
Occurrences(seq, x) == Cardinality({ k \in DOMAIN seq : seq[k] = x })

\* C34: whenever a conversation is in status finished, every entry of
\* conversation_history has been written to the JSONL file exactly once:
\* the file holds each entry's line as often as the history holds the entry
\* (entries are told apart as far as the model tells them apart; the
\* timestamp is not modelled).
C34_FinishedHistoryIsSavedOnce ==
    (session_state.conversation_status = "finished") =>
        \A i \in DOMAIN session_state.conversation_history :
            Occurrences(log_file, JsonLine(session_state.conversation_history[i]))
                = Occurrences(session_state.conversation_history,
                              session_state.conversation_history[i])

\* ---- C35 ----
\* the replies and refusals an agent has returned so far, each of which
\* became one Log Entry
EntriesSpokenBy(who) ==
    Cardinality({ j \in DOMAIN requests :
                     requests[j].agent = who /\ requests[j].outcome = "returned" })

\* C35: the tab counts every Log Entry for the agent that spoke it, also
\* when both agents use the same model: between script runs
\* agent_a_messages and agent_b_messages are the numbers of entries Agent A
\* and Agent B have produced.
C35_EntriesCountedForTheirSpeaker ==
    ~session_state.in_loop =>
        /\ session_state.conversation_metrics.agent_a_messages = EntriesSpokenBy(AgentAName)
        /\ session_state.conversation_metrics.agent_b_messages = EntriesSpokenBy(AgentBName)

\* ---- C36 ----
\* the simulation under way is the first thing its Orchestrator does: both
\* agents hold only their system message, nothing is logged, and no entry
\* of an earlier simulation carries its experiment_id
NewOrchestrator ==
    /\ histA = << Message("system", cfgA.system_prompt) >>
    /\ histB = << Message("system", cfgB.system_prompt) >>
    /\ logs = << >>
    /\ \A i \in DOMAIN yielded : yielded[i].experiment_id # experiment_id

\* the pass under way is pass c of the loops
RunsCombination(c) ==
    /\ cfgA.model = BatchModels[c.model_a]
    /\ cfgB.model = BatchModels[c.model_b]
    /\ cfgA.system_prompt = BatchScenarios[c.scenario].system_prompt_base
    /\ cfgB.system_prompt = BatchScenarios[c.scenario].system_prompt_base
    /\ scenario_name = BatchScenarios[c.scenario].scenario_name

\* C36: run_experiments runs one simulation per (model A, model B, scenario,
\* iteration): no combination is started twice, and when the batch is
\* complete every combination has been started.  Each simulation starts on
\* a newly constructed Orchestrator configured for its combination.  When a
\* simulation has ended, however it ended, and combinations are left, the
\* next thing run_experiments does is start the next one.
C36_OneSimulationPerCombination ==
    /\ [](/\ Len(batch.started) = batch.current_experiment
          /\ batch.current_experiment <= TotalExperiments
          /\ \A i, j \in DOMAIN batch.started :
                 batch.started[i] = batch.started[j] => i = j
          /\ batch.completed => batch.current_experiment = TotalExperiments
          /\ (pc = "created") =>
                 /\ NewOrchestrator
                 /\ RunsCombination(batch.started[Len(batch.started)]))
    /\ [][(pc = "done" /\ PassedOn /\ batch.current_experiment < TotalExperiments) =>
             /\ batch'.current_experiment = batch.current_experiment + 1
             /\ pc' = "created"]_vars

\* the third simulation starts after one simulation ended with a failed turn
\* and another with a refusal
C36_Witness ==
    /\ pc = "created"
    /\ batch.current_experiment = 3
    /\ \E i \in DOMAIN oplog : oplog[i].event = "failed turn"
    /\ \E i \in DOMAIN yielded : yielded[i].is_refusal

====
